---- MODULE Spec2Model ----
(***************************************************************************)
(* Model of the MultiTimer engine (class MultiTimer, version 1.3.0):       *)
(* the timer collection, the setTimeout tick chains with drift correction, *)
(* start / stop / complete / reset, sequential chaining, the completion    *)
(* blink with its delayed auto-reset, the time dialog, dragging, and the   *)
(* timer-count and max-time selectors.                                     *)
(*                                                                         *)
(* Time is in milliseconds (performance.now()).  A setTimeout callback is  *)
(* a record in ticks / blinks carrying the earliest clock value at which   *)
(* the event loop may run it; it may run later, never earlier.             *)
(***************************************************************************)
EXTENDS Integers, FiniteSets, Sequences, TLC

\* ------------------------------------------------------------------ bounds
\* Timer-count presets 5 / 10 / 15, scaled down; the collection is resized
\* between the two smaller ones.
PresetCounts == {1, 2, 3}
ResizeCounts == {1, 2}
\* The clock advances in steps of ClockStep, up to MaxClock where every
\* handler interleaves, up to SeqClock where a chain of one-second timers is
\* followed and up to LongClock where the auto-reset fires.  SeqClock and
\* LongClock leave a few milliseconds of slack, so that a slightly longer
\* step still takes the clock past one second and past the auto-reset.
ClockStep == 500
MaxClock == 1500
SeqClock == 1002
LongClock == 6012
LiveClock == 3500
\* Callbacks pending at once.
MaxTicks == 3
MaxBlinks == 2
\* Counter values go from -MaxValue to MaxValue.
MaxValue == 1
\* Targets typed into a counter card: <<>> is a field parseInt cannot read.
TargetOptions == {<<>>, <<1>>}
\* Seconds typed into the time dialog: <<>> is a field parseInt cannot read.
DialogSeconds == {<<>>, <<1>>, <<2>>}
\* Bar positions reached while dragging, in snap units of 10 seconds.
DragUnits == {0, 1}
\* What is typed into the minutes and seconds fields where the validation of
\* the dialog is exercised: unreadable, negative, in range, at and beyond the
\* field maxima and the max-time options.
WideMinutes == {<<>>, <<-1>>, <<10>>, <<60>>}
WideSeconds == {<<>>, <<-1>>, <<1>>, <<700>>}
WideDragUnits == {0, 1, 60, 360}
\* What parseInt makes of the option chosen in the timer-count select.
CountOptions == {<<>>, <<1>>, <<4>>}

\* ---------------------------------------------------------- program constants
DEFAULT_MAX_TIME == 1800
MAX_TIME_OPTIONS == {600, 900, 1800, 2700, 3600}
TIME_INPUT_MAX_MINUTES == 59
TIME_INPUT_MAX_SECONDS == 59
SNAP_UNIT_SECONDS == 10
AUTO_START_ENABLED == FALSE
SEQUENTIAL_EXECUTION == FALSE
SOUND_ENABLED == TRUE
FirstTickDelay == 100
BlinkResetDelay == 5000
MsPerSecond == 1000

VARIABLES
  timers,               \* this.timers: id -> timer object
  intervalIds,          \* this.intervalIds: id -> stored timeout handle, 0 = null
  rowCompleted,         \* class 'completed' on the row of each timer (blink)
  ticks,                \* pending timerTick callbacks
  blinks,               \* pending delayed auto-reset callbacks
  currentTimerCount,
  currentMaxTime,
  autoStartEnabled,
  sequentialExecution,
  dragState,            \* [isDragging, timerId]
  now,                  \* performance.now()
  storage,              \* the localStorage item of the preferences, Null = none
  counters,             \* counter page: this.counters
  currentCount,         \* counter page: this.currentCount
  counterState          \* the localStorage item of the counter state

vars == <<timers, intervalIds, rowCompleted, ticks, blinks, currentTimerCount,
          currentMaxTime, autoStartEnabled, sequentialExecution, dragState,
          now, storage, counters, currentCount, counterState>>

counterVars == <<counters, currentCount, counterState>>

Null == <<>>
Ids(n) == 0 .. (n - 1)

\* Math.ceil(a / b) for b > 0
CeilDiv(a, b) == -((-a) \div b)
Max(a, b) == IF a >= b THEN a ELSE b
Min(a, b) == IF a <= b THEN a ELSE b

\* parseInt(field) || 0
ParseIntOrZero(field) == IF field = <<>> THEN 0 ELSE field[1]

createTimerObject(id) ==
  [id |-> id, totalTime |-> 0, currentTime |-> 0, isRunning |-> FALSE,
   isCompleted |-> FALSE, startTime |-> Null, expectedTime |-> Null]

\* What creating and starting the oscillator of the alarm can come to: the
\* beep plays, the browser has no AudioContext, or one of the calls throws.
AudioOutcomes == {"plays", "unsupported", "throws"}

\* The part of the object the engine operations work on, with the audio
\* channel as the handler finds it and what the handler lets out: the alarm
\* sounds it played and the notification it showed.
EngineWith(audio) ==
  [timers |-> timers, intervalIds |-> intervalIds, rowCompleted |-> rowCompleted,
   ticks |-> ticks, blinks |-> blinks, audio |-> audio, alerts |-> <<>>,
   note |-> ""]

Engine == EngineWith("plays")

initializeTimers(e, n) ==
  [e EXCEPT !.timers = [i \in Ids(n) |-> createTimerObject(i)],
            !.intervalIds = [i \in Ids(n) |-> 0]]

\* setTimeout returns a handle no live reference holds.
FreshId(e) ==
  LET used == {c.id : c \in e.ticks} \cup {e.intervalIds[i] : i \in DOMAIN e.intervalIds}
  IN CHOOSE h \in 1 .. (Cardinality(used) + 1) :
       h \notin used /\ \A g \in 1 .. (h - 1) : g \in used

startBlinkEffect(e, i, t) ==
  [e EXCEPT !.rowCompleted[i] = TRUE,
            !.blinks = @ \cup {[timerId |-> i, due |-> t + BlinkResetDelay]}]

stopBlinkEffect(e, i) == [e EXCEPT !.rowCompleted[i] = FALSE]

\* stopTimer marking a timer stopped at 0 seconds as completed.
stopTimer_completesAtZero(e, i) ==
  LET h == e.intervalIds[i] IN
  [e EXCEPT !.timers[i].isRunning = FALSE,
            !.timers[i].isCompleted = (e.timers[i].currentTime = 0),
            !.ticks = IF h # 0 THEN {c \in @ : c.id # h} ELSE @,
            !.intervalIds[i] = 0]

\* stopTimer cancelling every pending timerTick, not only its own.
stopTimer_cancelsAll(e, i) ==
  [e EXCEPT !.timers[i].isRunning = FALSE,
            !.ticks = {},
            !.intervalIds[i] = 0]

\* stopTimer that also rewinds the countdown, as a reset would.
stopTimer_rewinds(e, i) ==
  LET h == e.intervalIds[i] IN
  [e EXCEPT !.timers[i].isRunning = FALSE,
            !.timers[i].currentTime = e.timers[i].totalTime,
            !.ticks = IF h # 0 THEN {c \in @ : c.id # h} ELSE @,
            !.intervalIds[i] = 0]


stopTimer(e, i) ==
  LET h == e.intervalIds[i] IN
  [e EXCEPT !.timers[i].isRunning = FALSE,
            !.ticks = IF h # 0 THEN {c \in @ : c.id # h} ELSE @,
            !.intervalIds[i] = 0]

\* startTimer keeping the handle of its first timerTick to itself.
startTimer_dropsHandle(e, i, t) ==
  LET tm == e.timers[i]
      cur == IF tm.isCompleted THEN tm.totalTime ELSE tm.currentTime
      e1 == IF tm.isCompleted THEN stopBlinkEffect(e, i) ELSE e
      h == FreshId(e)
  IN [e1 EXCEPT !.timers[i] = [tm EXCEPT !.currentTime = cur,
                                         !.isCompleted = FALSE,
                                         !.isRunning = TRUE,
                                         !.startTime = <<t>>,
                                         !.expectedTime = <<t + cur * MsPerSecond>>],
                !.ticks = @ \cup {[id |-> h, timerId |-> i,
                                   due |-> t + FirstTickDelay, stale |-> FALSE,
                                   held |-> Null]}]

\* startTimer computing the end of the countdown from totalTime.
startTimer_fromTotal(e, i, t) ==
  LET tm == e.timers[i]
      cur == IF tm.isCompleted THEN tm.totalTime ELSE tm.currentTime
      e1 == IF tm.isCompleted THEN stopBlinkEffect(e, i) ELSE e
      h == FreshId(e)
  IN [e1 EXCEPT !.timers[i] = [tm EXCEPT !.currentTime = cur,
                                         !.isCompleted = FALSE,
                                         !.isRunning = TRUE,
                                         !.startTime = <<t>>,
                                         !.expectedTime = <<t + tm.totalTime * MsPerSecond>>],
                !.ticks = @ \cup {[id |-> h, timerId |-> i,
                                   due |-> t + FirstTickDelay, stale |-> FALSE,
                                   held |-> Null]},
                !.intervalIds[i] = h]

\* startTimer without the restart branch for a completed timer.
startTimer_noRestart(e, i, t) ==
  LET tm == e.timers[i]
      h == FreshId(e)
  IN [e EXCEPT !.timers[i] = [tm EXCEPT !.isCompleted = FALSE,
                                        !.isRunning = TRUE,
                                        !.startTime = <<t>>,
                                        !.expectedTime = <<t + tm.currentTime * MsPerSecond>>],
               !.ticks = @ \cup {[id |-> h, timerId |-> i,
                                  due |-> t + FirstTickDelay, stale |-> FALSE,
                                   held |-> Null]},
               !.intervalIds[i] = h]


startTimer(e, i, t) ==
  LET tm == e.timers[i]
      cur == IF tm.isCompleted THEN tm.totalTime ELSE tm.currentTime
      e1 == IF tm.isCompleted THEN stopBlinkEffect(e, i) ELSE e
      h == FreshId(e)
  IN [e1 EXCEPT !.timers[i] = [tm EXCEPT !.currentTime = cur,
                                         !.isCompleted = FALSE,
                                         !.isRunning = TRUE,
                                         !.startTime = <<t>>,
                                         !.expectedTime = <<t + cur * MsPerSecond>>],
                !.ticks = @ \cup {[id |-> h, timerId |-> i,
                                   due |-> t + FirstTickDelay, stale |-> FALSE,
                                   held |-> Null]},
                !.intervalIds[i] = h]

updateTimerTime(e, i, timeInSeconds) ==
  LET e1 == IF e.timers[i].isRunning THEN stopTimer(e, i) ELSE e
      e2 == [e1 EXCEPT !.timers[i].totalTime = timeInSeconds,
                       !.timers[i].currentTime = timeInSeconds,
                       !.timers[i].isCompleted = FALSE]
  IN stopBlinkEffect(e2, i)

RECURSIVE startNextFrom(_, _, _)
startNextFrom(e, i, t) ==
  IF i \notin DOMAIN e.timers THEN e
  ELSE LET tm == e.timers[i] IN
       IF tm.totalTime > 0 /\ ~tm.isRunning /\ ~tm.isCompleted
       THEN startTimer(e, i, t)
       ELSE startNextFrom(e, i + 1, t)

\* The scan starting over at the first timer.
startNextAvailableTimer_wraps(e, completedTimerId, t) ==
  startNextFrom(e, 0, t)


startNextAvailableTimer(e, completedTimerId, t) ==
  startNextFrom(e, completedTimerId + 1, t)

\* The visual notification, inside its own try/catch.
fallbackAlarm(e) == [e EXCEPT !.note = "TimerComplete"]

\* The whole body is inside try/catch, and the catch goes to fallbackAlarm.
playAlarmSound(e, i) ==
  IF e.audio = "plays" THEN [e EXCEPT !.alerts = Append(@, i)]
  ELSE fallbackAlarm(e)

\* completeTimer with an alarm whose failure is not caught: the exception
\* leaves completeTimer before the next timer is started.
completeTimer_audioUncaught(e, i, t, seq) ==
  LET h == e.intervalIds[i]
      e1 == [e EXCEPT !.timers[i].isRunning = FALSE,
                      !.timers[i].isCompleted = TRUE,
                      !.timers[i].currentTime = 0,
                      !.ticks = IF h # 0 THEN {c \in @ : c.id # h} ELSE @,
                      !.intervalIds[i] = 0]
      e2 == startBlinkEffect(e1, i, t)
      e3 == [e2 EXCEPT !.alerts = Append(@, i)]
  IN IF e.audio # "plays" THEN [e2 EXCEPT !.note = "Error"]
     ELSE IF seq THEN startNextAvailableTimer(e3, i, t) ELSE e3

\* completeTimer without its first assignment.
completeTimer_keepsRunning(e, i, t, seq) ==
  LET e1 == [e EXCEPT !.timers[i].isCompleted = TRUE,
                      !.timers[i].currentTime = 0,
                      !.intervalIds[i] = 0]
      e2 == startBlinkEffect(e1, i, t)
  IN [e2 EXCEPT !.alerts = Append(@, i)]


completeTimer(e, i, t, seq) ==
  LET h == e.intervalIds[i]
      e1 == [e EXCEPT !.timers[i].isRunning = FALSE,
                      !.timers[i].isCompleted = TRUE,
                      !.timers[i].currentTime = 0,
                      !.ticks = IF h # 0 THEN {c \in @ : c.id # h} ELSE @,
                      !.intervalIds[i] = 0]
      e2 == startBlinkEffect(e1, i, t)
      e3 == IF SOUND_ENABLED THEN playAlarmSound(e2, i) ELSE e2
  IN IF seq THEN startNextAvailableTimer(e3, i, t) ELSE e3

\* timerTick that never schedules the next tick.
timerTick_oneShot(e, i, t, seq) ==
  LET tm == e.timers[i] IN
  IF ~tm.isRunning THEN e
  ELSE LET remainingMs == tm.expectedTime[1] - t
           cur == Max(0, CeilDiv(remainingMs, MsPerSecond))
           e1 == [e EXCEPT !.timers[i].currentTime = cur]
       IN IF cur <= 0 THEN completeTimer(e1, i, t, seq) ELSE e1

\* A fixed-period countdown: one second off per tick, whatever the clock says.
timerTick_fixedPeriod(e, i, t, seq) ==
  LET tm == e.timers[i] IN
  IF ~tm.isRunning THEN e
  ELSE LET cur == Max(0, tm.currentTime - 1)
           e1 == [e EXCEPT !.timers[i].currentTime = cur]
       IN IF cur <= 0 THEN completeTimer(e1, i, t, seq)
          ELSE LET h == FreshId(e1)
               IN [e1 EXCEPT !.ticks = @ \cup {[id |-> h, timerId |-> i,
                                                due |-> t + MsPerSecond, stale |-> FALSE,
                                   held |-> Null]},
                             !.intervalIds[i] = h]

\* timerTick without its first line, the isRunning test.
timerTick_unguarded(e, i, t, seq) ==
  LET tm == e.timers[i]
      elapsed == t - tm.startTime[1]
      remainingMs == tm.expectedTime[1] - t
      cur == Max(0, CeilDiv(remainingMs, MsPerSecond))
      e1 == [e EXCEPT !.timers[i].currentTime = cur]
  IN IF cur <= 0 THEN completeTimer(e1, i, t, seq)
     ELSE LET nextUpdate == Max(1, MsPerSecond - (elapsed % MsPerSecond))
              h == FreshId(e1)
          IN [e1 EXCEPT !.ticks = @ \cup {[id |-> h, timerId |-> i,
                                           due |-> t + nextUpdate, stale |-> FALSE,
                                   held |-> Null]},
                        !.intervalIds[i] = h]


\* The body of the timerTick closure of timer i, run at clock value t.
timerTick(e, i, t, seq) ==
  LET tm == e.timers[i] IN
  IF ~tm.isRunning THEN e
  ELSE LET elapsed == t - tm.startTime[1]
           remainingMs == tm.expectedTime[1] - t
           cur == Max(0, CeilDiv(remainingMs, MsPerSecond))
           e1 == [e EXCEPT !.timers[i].currentTime = cur]
       IN IF cur <= 0 THEN completeTimer(e1, i, t, seq)
          ELSE LET nextUpdate == Max(1, MsPerSecond - (elapsed % MsPerSecond))
                   h == FreshId(e1)
               IN [e1 EXCEPT !.ticks = @ \cup {[id |-> h, timerId |-> i,
                                                due |-> t + nextUpdate, stale |-> FALSE,
                                   held |-> Null]},
                             !.intervalIds[i] = h]

resetTimer(e, i) ==
  LET e1 == stopTimer(e, i)
      e2 == [e1 EXCEPT !.timers[i].totalTime = 0,
                       !.timers[i].currentTime = 0,
                       !.timers[i].isCompleted = FALSE,
                       !.timers[i].startTime = Null,
                       !.timers[i].expectedTime = Null]
  IN stopBlinkEffect(e2, i)

\* resetTimerToZero putting the countdown back to the full time.
resetTimerToZero_rewinds(e, i) ==
  stopBlinkEffect([e EXCEPT !.timers[i].currentTime = e.timers[i].totalTime,
                            !.timers[i].isCompleted = FALSE], i)

resetTimerToZero(e, i) ==
  stopBlinkEffect([e EXCEPT !.timers[i].currentTime = 0,
                            !.timers[i].isCompleted = FALSE], i)

RECURSIVE stopAllFrom(_, _)
stopAllFrom(e, i) ==
  IF i \notin DOMAIN e.timers THEN e
  ELSE stopAllFrom(IF e.timers[i].isRunning THEN stopTimer(e, i) ELSE e, i + 1)

stopAllTimers(e) == stopAllFrom(e, 0)

RECURSIVE resetAllFrom(_, _)
resetAllFrom(e, i) ==
  IF i \notin DOMAIN e.timers THEN e ELSE resetAllFrom(resetTimer(e, i), i + 1)

resetAllTimers(e) == resetAllFrom(e, 0)

\* resetAllTimersToZero has the body of resetTimer for every index.
resetAllTimersToZero(e) == resetAllFrom(e, 0)

RECURSIVE startFirstFrom(_, _, _)
startFirstFrom(e, i, t) ==
  IF i \notin DOMAIN e.timers THEN e
  ELSE IF e.timers[i].totalTime > 0 /\ ~e.timers[i].isRunning
       THEN startTimer(e, i, t)
       ELSE startFirstFrom(e, i + 1, t)

startFirstAvailableTimer(e, t) == startFirstFrom(e, 0, t)

RECURSIVE startEachFrom(_, _, _)
startEachFrom(e, i, t) ==
  IF i \notin DOMAIN e.timers THEN e
  ELSE startEachFrom(IF e.timers[i].totalTime > 0 /\ ~e.timers[i].isRunning
                     THEN startTimer(e, i, t) ELSE e, i + 1, t)

\* startAllTimers starting every set timer, running or not.
startAllTimers_restartsRunning(e, t, seq) ==
  LET RECURSIVE each(_, _)
      each(x, i) ==
        IF i \notin DOMAIN x.timers THEN x
        ELSE each(IF x.timers[i].totalTime > 0 THEN startTimer(x, i, t) ELSE x, i + 1)
  IN IF seq THEN startFirstAvailableTimer(e, t) ELSE each(e, 0)


startAllTimers(e, t, seq) ==
  IF seq THEN startFirstAvailableTimer(e, t) ELSE startEachFrom(e, 0, t)

toggleTimer(e, i, t) ==
  IF e.timers[i].isRunning THEN stopTimer(e, i) ELSE startTimer(e, i, t)

toggleAllTimers(e, t, seq) ==
  IF \E i \in DOMAIN e.timers : e.timers[i].isRunning
  THEN stopAllTimers(e) ELSE startAllTimers(e, t, seq)

\* validateTimerCount letting every count through.
validateTimerCount_acceptsAny(count) == TRUE

validateTimerCount(count) == count \in PresetCounts

\* A pending timerTick closure once initializeTimers has replaced the
\* collection e: it keeps the timer object it was created with, which is
\* recorded with the closure when it is still running (on a stopped object
\* the closure returns at its first line).
orphaned(e, c) ==
  IF c.stale THEN c
  ELSE [c EXCEPT !.stale = TRUE,
                 !.held = IF e.timers[c.timerId].isRunning
                          THEN <<e.timers[c.timerId]>> ELSE Null]

\* changeTimerCount without the call of stopAllTimers.
changeTimerCount_leavesRunning(e, newCount) ==
  IF newCount = Cardinality(DOMAIN e.timers) THEN e
  ELSE LET e2 == initializeTimers(e, newCount)
       IN [e2 EXCEPT !.rowCompleted = [i \in Ids(newCount) |-> FALSE],
                     !.ticks = {orphaned(e, c) : c \in @}]

\* changeTimerCount without its first line, the test for an unchanged count.
changeTimerCount_rebuilds(e, newCount) ==
  LET e1 == stopAllTimers(e)
      e2 == initializeTimers(e1, newCount)
  IN [e2 EXCEPT !.rowCompleted = [i \in Ids(newCount) |-> FALSE],
                !.ticks = {orphaned(e1, c) : c \in @}]


\* The old timer objects stay reachable only from the timerTick closures
\* still pending, which stopAllTimers left with isRunning false.
changeTimerCount(e, newCount) ==
  IF newCount = Cardinality(DOMAIN e.timers) THEN e
  ELSE LET e1 == stopAllTimers(e)
           e2 == initializeTimers(e1, newCount)
       IN [e2 EXCEPT !.rowCompleted = [i \in Ids(newCount) |-> FALSE],
                     !.ticks = {orphaned(e1, c) : c \in @}]

\* 'change' on the timer-count select; value is what parseInt made of the
\* option, <<>> standing for NaN.
timerCountSelectChange(e, value) ==
  IF value = <<>> \/ ~validateTimerCount(value[1])
  THEN [e EXCEPT !.note = "InvalidPreset"]
  ELSE changeTimerCount(e, value[1])

\* confirmTimeInput starting the timer whatever the auto-start switch says.
confirmTimeInput_alwaysStarts(e, i, minutesField, secondsField, maxTime, auto, t) ==
  LET minutes == Min(ParseIntOrZero(minutesField), TIME_INPUT_MAX_MINUTES)
      seconds == Min(ParseIntOrZero(secondsField), TIME_INPUT_MAX_SECONDS)
      totalSeconds == (minutes * 60) + seconds
  IN IF totalSeconds > maxTime
     THEN [e EXCEPT !.note = "MaxTimeExceeded"]
     ELSE LET e1 == updateTimerTime(e, i, totalSeconds)
          IN IF totalSeconds > 0 THEN startTimer(e1, i, t) ELSE e1


\* openTimeInputModal(i), which stores i in currentEditingTimer, followed by
\* the confirm button of the dialog.
confirmTimeInput(e, i, minutesField, secondsField, maxTime, auto, t) ==
  LET minutes == Min(ParseIntOrZero(minutesField), TIME_INPUT_MAX_MINUTES)
      seconds == Min(ParseIntOrZero(secondsField), TIME_INPUT_MAX_SECONDS)
      totalSeconds == (minutes * 60) + seconds
  IN IF totalSeconds > maxTime
     THEN [e EXCEPT !.note = "MaxTimeExceeded"]
     ELSE LET e1 == updateTimerTime(e, i, totalSeconds)
          IN IF totalSeconds > 0 /\ auto THEN startTimer(e1, i, t) ELSE e1

RECURSIVE applyFrom(_, _, _, _, _)
applyFrom(e, i, totalSeconds, auto, t) ==
  IF i \notin DOMAIN e.timers THEN e
  ELSE LET e1 == updateTimerTime(e, i, totalSeconds)
           e2 == IF auto /\ totalSeconds > 0 THEN startTimer(e1, i, t) ELSE e1
       IN applyFrom(e2, i + 1, totalSeconds, auto, t)

applyGlobalTime(e, minutesField, secondsField, maxTime, auto, t) ==
  LET minutes == Min(ParseIntOrZero(minutesField), TIME_INPUT_MAX_MINUTES)
      seconds == Min(ParseIntOrZero(secondsField), TIME_INPUT_MAX_SECONDS)
      totalSeconds == (minutes * 60) + seconds
  IN IF totalSeconds > maxTime
     THEN [e EXCEPT !.note = "MaxTimeExceeded"]
     ELSE applyFrom(e, 0, totalSeconds, auto, t)

\* Click on the play/pause button of timer i.
playPauseClick(e, i, t) ==
  IF e.timers[i].isCompleted THEN resetTimer(e, i) ELSE toggleTimer(e, i, t)

\* mousemove while dragging timer i: units is the snapped bar position in
\* units of SNAP_UNIT_SECONDS, which the clamp of newPercent keeps on the bar.
onDrag(e, i, units) == updateTimerTime(e, i, units * SNAP_UNIT_SECONDS)

\* mouseup while dragging timer i.
endDrag(e, i, auto, t) ==
  IF e.timers[i].totalTime > 0 /\ auto THEN startTimer(e, i, t) ELSE e

\* The body of a timerTick closure whose timer object has left the
\* collection: it works on the object it holds, and on the collection of
\* today through its index, in completeTimer and in the handle it stores.
orphanTick(e, c, t, seq) ==
  IF c.held = Null THEN e
  ELSE LET tm == c.held[1]
           i == c.timerId
           elapsed == t - tm.startTime[1]
           remainingMs == tm.expectedTime[1] - t
           cur == Max(0, CeilDiv(remainingMs, MsPerSecond))
       IN IF cur <= 0
          THEN IF i \in DOMAIN e.timers THEN completeTimer(e, i, t, seq)
               ELSE [e EXCEPT !.note = "TypeError"]
          ELSE LET nextUpdate == Max(1, MsPerSecond - (elapsed % MsPerSecond))
                   h == FreshId(e)
                   next == [id |-> h, timerId |-> i, due |-> t + nextUpdate,
                            stale |-> TRUE,
                            held |-> <<[tm EXCEPT !.currentTime = cur]>>]
               IN IF i \in DOMAIN e.timers
                  THEN [e EXCEPT !.ticks = @ \cup {next}, !.intervalIds[i] = h]
                  ELSE [e EXCEPT !.ticks = @ \cup {next}]

\* The event loop runs pending timerTick callback c at clock value t.
runTick(e, c, t, seq) ==
  LET e0 == [e EXCEPT !.ticks = @ \ {c}]
  IN IF c.stale THEN orphanTick(e0, c, t, seq)
     ELSE timerTick(e0, c.timerId, t, seq)

\* The event loop runs the delayed auto-reset callback b of startBlinkEffect;
\* it looks its timer up by index in the current collection and throws when
\* that index is gone.
runBlink(e, b) ==
  LET e0 == [e EXCEPT !.blinks = @ \ {b}]
  IN IF b.timerId \notin DOMAIN e.timers THEN [e0 EXCEPT !.note = "TypeError"]
     ELSE IF e.timers[b.timerId].isCompleted THEN resetTimerToZero(e0, b.timerId)
          ELSE e0

\* The flags the constructor sets before loadSettings runs.
defaultFlags ==
  [autoStartEnabled |-> AUTO_START_ENABLED,
   sequentialExecution |-> SEQUENTIAL_EXECUTION]

\* saveSettings builds the settings object field by field from the object
\* and stores its JSON text; of the two flags only autoStartEnabled is among
\* the fields, and a boolean survives JSON unchanged.
saveSettings(flags) == <<[autoStartEnabled |-> flags.autoStartEnabled]>>

\* loadSettings overwrites the fields it finds in the stored item.
loadSettings(stored, flags) ==
  IF stored = Null THEN flags
  ELSE [flags EXCEPT !.autoStartEnabled = stored[1].autoStartEnabled]

\* ------------------------------------------------------- the counter page
\* The counts of the counter page, and the one its constructor starts with,
\* on the scale of PresetCounts.
CounterCounts == {1, 2, 3}
DefaultCounterCount == 2

\* Array.from({length: n}, ...) of loadState: label 'Counter i+1', value 0,
\* no target.
newCounters(n) ==
  [k \in 1 .. n |-> [label |-> k, value |-> 0, target |-> Null]]

CounterEngine ==
  [counters |-> counters, currentCount |-> currentCount, state |-> counterState]

\* The array goes to the storage as JSON text, which gives back the
\* objects with their label, integer value and target (null or a number).
saveState(ce) == [ce EXCEPT !.state = <<ce.counters>>]

\* loadState taking whatever state it finds.
loadState_anyLength(ce) ==
  saveState([ce EXCEPT !.counters = IF ce.state # Null THEN ce.state[1]
                                    ELSE newCounters(ce.currentCount)])

loadState(ce) ==
  saveState([ce EXCEPT !.counters =
               IF ce.state # Null /\ Len(ce.state[1]) = ce.currentCount
               THEN ce.state[1]
               ELSE newCounters(ce.currentCount)])

changeCount(ce, n) == loadState([ce EXCEPT !.currentCount = n])

updateValue(ce, index, delta, isReset) ==
  saveState([ce EXCEPT !.counters[index].value = IF isReset THEN 0 ELSE @ + delta])

\* 'input' on the target field; value is what parseInt made of it.
targetInput(ce, index, value) ==
  saveState([ce EXCEPT !.counters[index].target = value])

resetAll(ce) ==
  saveState([ce EXCEPT !.counters =
               [k \in DOMAIN @ |-> [@[k] EXCEPT !.value = 0, !.target = Null]]])

\* ------------------------------------------------------------------ actions
Commit(e) ==
  /\ Cardinality(e.ticks) <= MaxTicks
  /\ Cardinality(e.blinks) <= MaxBlinks
  /\ timers' = e.timers
  /\ intervalIds' = e.intervalIds
  /\ rowCompleted' = e.rowCompleted
  /\ ticks' = e.ticks
  /\ blinks' = e.blinks
  /\ currentTimerCount' = Cardinality(DOMAIN e.timers)

InitWith(n, auto, seq) ==
  /\ currentTimerCount = n
  /\ timers = [i \in Ids(n) |-> createTimerObject(i)]
  /\ intervalIds = [i \in Ids(n) |-> 0]
  /\ rowCompleted = [i \in Ids(n) |-> FALSE]
  /\ ticks = {}
  /\ blinks = {}
  /\ currentMaxTime = DEFAULT_MAX_TIME
  /\ autoStartEnabled = auto
  /\ sequentialExecution = seq
  /\ dragState = [isDragging |-> FALSE, timerId |-> Null]
  /\ now = 0
  /\ storage = Null
  /\ currentCount = DefaultCounterCount
  /\ counters = newCounters(DefaultCounterCount)
  /\ counterState = <<newCounters(DefaultCounterCount)>>

COUNT == CHOOSE n \in PresetCounts : \A m \in PresetCounts : n <= m

Init == InitWith(COUNT, AUTO_START_ENABLED, SEQUENTIAL_EXECUTION)

ConfirmTimeInput(i, minutesField, secondsField) ==
  /\ i \in DOMAIN timers
  /\ Commit(confirmTimeInput(Engine, i, minutesField, secondsField,
                             currentMaxTime, autoStartEnabled, now))
  /\ UNCHANGED counterVars
  /\ UNCHANGED <<storage, currentMaxTime, autoStartEnabled, sequentialExecution, dragState, now>>

ApplyGlobalTime(minutesField, secondsField) ==
  /\ Commit(applyGlobalTime(Engine, minutesField, secondsField,
                            currentMaxTime, autoStartEnabled, now))
  /\ UNCHANGED counterVars
  /\ UNCHANGED <<storage, currentMaxTime, autoStartEnabled, sequentialExecution, dragState, now>>

PlayPauseButton(i) ==
  /\ i \in DOMAIN timers
  /\ Commit(playPauseClick(Engine, i, now))
  /\ UNCHANGED counterVars
  /\ UNCHANGED <<storage, currentMaxTime, autoStartEnabled, sequentialExecution, dragState, now>>

\* Click on the reset (X) button of timer i.
ResetButton(i) ==
  /\ i \in DOMAIN timers
  /\ Commit(resetTimer(Engine, i))
  /\ UNCHANGED counterVars
  /\ UNCHANGED <<storage, currentMaxTime, autoStartEnabled, sequentialExecution, dragState, now>>

StartAll ==
  /\ Commit(startAllTimers(Engine, now, sequentialExecution))
  /\ UNCHANGED counterVars
  /\ UNCHANGED <<storage, currentMaxTime, autoStartEnabled, sequentialExecution, dragState, now>>

StopAll ==
  /\ Commit(stopAllTimers(Engine))
  /\ UNCHANGED counterVars
  /\ UNCHANGED <<storage, currentMaxTime, autoStartEnabled, sequentialExecution, dragState, now>>

ResetAll ==
  /\ Commit(resetAllTimers(Engine))
  /\ UNCHANGED counterVars
  /\ UNCHANGED <<storage, currentMaxTime, autoStartEnabled, sequentialExecution, dragState, now>>

\* Space bar.
ToggleAll ==
  /\ Commit(toggleAllTimers(Engine, now, sequentialExecution))
  /\ UNCHANGED counterVars
  /\ UNCHANGED <<storage, currentMaxTime, autoStartEnabled, sequentialExecution, dragState, now>>

AutoStartToggle(checked) ==
  /\ autoStartEnabled' = checked
  /\ UNCHANGED counterVars
  /\ UNCHANGED <<storage, timers, intervalIds, rowCompleted, ticks, blinks, currentTimerCount,
                 currentMaxTime, sequentialExecution, dragState, now>>

SequentialToggle(checked) ==
  /\ sequentialExecution' = checked
  /\ UNCHANGED counterVars
  /\ UNCHANGED <<storage, timers, intervalIds, rowCompleted, ticks, blinks, currentTimerCount,
                 currentMaxTime, autoStartEnabled, dragState, now>>

\* 'change' on the max-time select.
MaxTimeSelect(value) ==
  /\ currentMaxTime' = value
  /\ Commit(resetAllTimersToZero(Engine))
  /\ UNCHANGED counterVars
  /\ UNCHANGED <<storage, autoStartEnabled, sequentialExecution, dragState, now>>

TimerCountSelect(value) ==
  /\ Commit(timerCountSelectChange(Engine, value))
  /\ UNCHANGED counterVars
  /\ UNCHANGED <<storage, currentMaxTime, autoStartEnabled, sequentialExecution, dragState, now>>

\* mousedown / touchstart on the bar of timer i.
StartDrag(i) ==
  /\ i \in DOMAIN timers
  /\ dragState' = [isDragging |-> TRUE, timerId |-> <<i>>]
  /\ UNCHANGED counterVars
  /\ UNCHANGED <<storage, timers, intervalIds, rowCompleted, ticks, blinks, currentTimerCount,
                 currentMaxTime, autoStartEnabled, sequentialExecution, now>>

\* mousemove / touchmove.  A drag whose timer was resized away throws on the
\* missing bar before it changes anything.
OnDrag(units) ==
  /\ dragState.isDragging
  /\ units * SNAP_UNIT_SECONDS <= currentMaxTime
  /\ IF dragState.timerId[1] \in DOMAIN timers
     THEN Commit(onDrag(Engine, dragState.timerId[1], units))
     ELSE Commit(Engine)
  /\ UNCHANGED counterVars
  /\ UNCHANGED <<storage, currentMaxTime, autoStartEnabled, sequentialExecution, dragState, now>>

\* mouseup / touchend.
EndDrag ==
  /\ dragState.isDragging
  /\ IF dragState.timerId[1] \in DOMAIN timers
     THEN /\ Commit(endDrag(Engine, dragState.timerId[1], autoStartEnabled, now))
          /\ dragState' = [isDragging |-> FALSE, timerId |-> Null]
     ELSE /\ Commit(Engine)
          /\ UNCHANGED dragState
  /\ UNCHANGED counterVars
  /\ UNCHANGED <<storage, currentMaxTime, autoStartEnabled, sequentialExecution, now>>

FireTick(c) ==
  /\ c \in ticks
  /\ now >= c.due
  /\ \E audio \in AudioOutcomes :
       Commit(runTick(EngineWith(audio), c, now, sequentialExecution))
  /\ UNCHANGED counterVars
  /\ UNCHANGED <<storage, currentMaxTime, autoStartEnabled, sequentialExecution, dragState, now>>

FireBlink(b) ==
  /\ b \in blinks
  /\ now >= b.due
  /\ Commit(runBlink(Engine, b))
  /\ UNCHANGED counterVars
  /\ UNCHANGED <<storage, currentMaxTime, autoStartEnabled, sequentialExecution, dragState, now>>

AdvanceClock(limit) ==
  /\ now + ClockStep <= limit
  /\ now' = now + ClockStep
  /\ UNCHANGED counterVars
  /\ UNCHANGED <<storage, timers, intervalIds, rowCompleted, ticks, blinks, currentTimerCount,
                 currentMaxTime, autoStartEnabled, sequentialExecution, dragState>>

\* Click on the auto-start label of the mobile settings panel.
MobileAutoStartToggle(newState) ==
  /\ autoStartEnabled' = newState
  /\ storage' = saveSettings([autoStartEnabled |-> newState,
                              sequentialExecution |-> sequentialExecution])
  /\ UNCHANGED counterVars
  /\ UNCHANGED <<timers, intervalIds, rowCompleted, ticks, blinks, currentTimerCount,
                 currentMaxTime, sequentialExecution, dragState, now>>

\* Click on the sequential label of the mobile settings panel.
MobileSequentialToggle(newState) ==
  /\ sequentialExecution' = newState
  /\ storage' = saveSettings([autoStartEnabled |-> autoStartEnabled,
                              sequentialExecution |-> newState])
  /\ UNCHANGED counterVars
  /\ UNCHANGED <<timers, intervalIds, rowCompleted, ticks, blinks, currentTimerCount,
                 currentMaxTime, autoStartEnabled, dragState, now>>

\* The page is loaded again: every pending callback is gone with the old
\* page, the constructor builds a new object and loadSettings reads the
\* stored item.
Reload ==
  LET flags == loadSettings(storage, defaultFlags) IN
  /\ currentTimerCount' = COUNT
  /\ timers' = [i \in Ids(COUNT) |-> createTimerObject(i)]
  /\ intervalIds' = [i \in Ids(COUNT) |-> 0]
  /\ rowCompleted' = [i \in Ids(COUNT) |-> FALSE]
  /\ ticks' = {}
  /\ blinks' = {}
  /\ currentMaxTime' = DEFAULT_MAX_TIME
  /\ autoStartEnabled' = flags.autoStartEnabled
  /\ sequentialExecution' = flags.sequentialExecution
  /\ dragState' = [isDragging |-> FALSE, timerId |-> Null]
  /\ now' = 0
  /\ UNCHANGED counterVars
  /\ UNCHANGED storage

CommitCounter(ce) ==
  /\ \A k \in DOMAIN ce.counters :
       /\ ce.counters[k].value <= MaxValue
       /\ ce.counters[k].value >= -MaxValue
  /\ counters' = ce.counters
  /\ currentCount' = ce.currentCount
  /\ counterState' = ce.state
  /\ UNCHANGED <<timers, intervalIds, rowCompleted, ticks, blinks, currentTimerCount,
                 currentMaxTime, autoStartEnabled, sequentialExecution, dragState,
                 now, storage>>

\* Click on +, - or 0 of the card of counter index.
CounterButton(index, delta, isReset) ==
  /\ index \in DOMAIN counters
  /\ CommitCounter(updateValue(CounterEngine, index, delta, isReset))

CounterTargetInput(index, value) ==
  /\ index \in DOMAIN counters
  /\ CommitCounter(targetInput(CounterEngine, index, value))

CounterResetAll == CommitCounter(resetAll(CounterEngine))

\* 'change' on the count select.
CounterCountSelect(n) == CommitCounter(changeCount(CounterEngine, n))

\* The counter page is loaded again: the constructor and init.
CounterReload ==
  CommitCounter(loadState([CounterEngine EXCEPT !.currentCount = DefaultCounterCount]))

NoField == <<>>

\* Every handler of the engine, over a short stretch of time.
Next ==
  \/ \E i \in DOMAIN timers, s \in DialogSeconds : ConfirmTimeInput(i, NoField, s)
  \/ \E i \in DOMAIN timers : PlayPauseButton(i)
  \/ \E i \in DOMAIN timers : ResetButton(i)
  \/ StartAll
  \/ StopAll
  \/ ResetAll
  \/ ToggleAll
  \/ \E b \in BOOLEAN : AutoStartToggle(b)
  \/ \E b \in BOOLEAN : SequentialToggle(b)
  \/ \E n \in ResizeCounts : TimerCountSelect(<<n>>)
  \/ \E s \in DialogSeconds : ApplyGlobalTime(NoField, s)
  \/ \E c \in ticks : FireTick(c)
  \/ AdvanceClock(MaxClock)

Spec == Init /\ [][Next]_vars

\* Dragging a single timer, with the dialog and the play button.
NextDrag ==
  \/ \E i \in DOMAIN timers : StartDrag(i)
  \/ \E u \in DragUnits : OnDrag(u)
  \/ EndDrag
  \/ \E i \in DOMAIN timers, s \in DialogSeconds : ConfirmTimeInput(i, NoField, s)
  \/ \E i \in DOMAIN timers : PlayPauseButton(i)
  \/ \E b \in BOOLEAN : AutoStartToggle(b)
  \/ \E c \in ticks : FireTick(c)
  \/ AdvanceClock(MaxClock)

SpecDrag == Init /\ [][NextDrag]_vars

\* Sequential execution over the largest collection.
InitSeq ==
  \E n \in PresetCounts :
    /\ \A m \in PresetCounts : m <= n
    /\ InitWith(n, FALSE, TRUE)

NextSeq ==
  \/ \E i \in DOMAIN timers, s \in {<<>>, <<1>>} : ConfirmTimeInput(i, NoField, s)
  \/ \E i \in DOMAIN timers : PlayPauseButton(i)
  \/ StartAll
  \/ \E c \in ticks : FireTick(c)
  \/ AdvanceClock(SeqClock)

SpecSeq == InitSeq /\ [][NextSeq]_vars

\* The validation of what the user enters: the dialog, apply-to-all,
\* dragging, and the two selects.
NextInput ==
  \/ \E i \in DOMAIN timers, m \in WideMinutes, s \in WideSeconds : ConfirmTimeInput(i, m, s)
  \/ \E m \in WideMinutes, s \in WideSeconds : ApplyGlobalTime(m, s)
  \/ \E v \in MAX_TIME_OPTIONS : MaxTimeSelect(v)
  \/ \E v \in CountOptions : TimerCountSelect(v)
  \/ \E checked \in BOOLEAN : AutoStartToggle(checked)
  \/ \E i \in DOMAIN timers : StartDrag(i)
  \/ \E u \in WideDragUnits : OnDrag(u)
  \/ EndDrag
  \/ \E c \in ticks : FireTick(c)
  \/ AdvanceClock(ClockStep)

SpecInput == Init /\ [][NextInput]_vars

\* A single timer over the time the delayed auto-reset needs.
NextBlink ==
  \/ \E i \in DOMAIN timers, s \in DialogSeconds : ConfirmTimeInput(i, NoField, s)
  \/ \E i \in DOMAIN timers : PlayPauseButton(i)
  \/ \E i \in DOMAIN timers : ResetButton(i)
  \/ StartAll
  \/ \E c \in ticks : FireTick(c)
  \/ \E b \in blinks : FireBlink(b)
  \/ AdvanceClock(LongClock)

SpecBlink == Init /\ [][NextBlink]_vars

\* Resizing the collection while a dragged timer runs.
NextResize ==
  \/ \E i \in DOMAIN timers : ConfirmTimeInput(i, NoField, <<1>>)
  \/ \E i \in DOMAIN timers : StartDrag(i)
  \/ EndDrag
  \/ \E n \in ResizeCounts : TimerCountSelect(<<n>>)
  \/ \E checked \in BOOLEAN : AutoStartToggle(checked)
  \/ \E c \in ticks : FireTick(c)
  \/ AdvanceClock(SeqClock)

SpecResize == Init /\ [][NextResize]_vars

\* The timer-count select with everything it can deliver, over timers that
\* are set, started and counting down.
NextCount ==
  \/ \E i \in DOMAIN timers, s \in DialogSeconds : ConfirmTimeInput(i, NoField, s)
  \/ \E i \in DOMAIN timers : PlayPauseButton(i)
  \/ \E v \in CountOptions \cup {<<n>> : n \in ResizeCounts} : TimerCountSelect(v)
  \/ \E c \in ticks : FireTick(c)
  \/ AdvanceClock(MaxClock)

SpecCount == Init /\ [][NextCount]_vars

\* Resizing the collection while timerTick callbacks are pending, those of
\* a doubly started timer included.
NextStale ==
  \/ \E i \in DOMAIN timers : ConfirmTimeInput(i, NoField, <<1>>)
  \/ \E i \in DOMAIN timers : StartDrag(i)
  \/ EndDrag
  \/ \E n \in ResizeCounts : TimerCountSelect(<<n>>)
  \/ AutoStartToggle(TRUE)
  \/ \E c \in ticks : FireTick(c)
  \/ AdvanceClock(ClockStep)

SpecStale == Init /\ [][NextStale]_vars

\* A timer set, started, paused and started again by a user who acts while
\* the clock still has the longest time of the dialog to run; every due
\* callback runs at some time and the clock keeps advancing.
TimeToRun ==
  \A s \in DialogSeconds :
    now + ParseIntOrZero(s) * MsPerSecond + ClockStep <= LiveClock

NextLive ==
  \/ \E i \in DOMAIN timers, s \in DialogSeconds :
       TimeToRun /\ ConfirmTimeInput(i, NoField, s)
  \/ \E i \in DOMAIN timers :
       TimeToRun /\ timers[i].totalTime > 0 /\ PlayPauseButton(i)
  \/ \E c \in ticks : FireTick(c)
  \/ AdvanceClock(LiveClock)

SpecLive ==
  /\ Init
  /\ [][NextLive]_vars
  /\ WF_vars(\E c \in ticks : FireTick(c))
  /\ WF_vars(AdvanceClock(LiveClock))

\* Whatever the dialog accepts, on a timer that is then started and counts
\* down.
NextWide ==
  \/ \E i \in DOMAIN timers, s \in WideSeconds : ConfirmTimeInput(i, NoField, s)
  \/ \E i \in DOMAIN timers : PlayPauseButton(i)
  \/ \E c \in ticks : FireTick(c)
  \/ AdvanceClock(MaxClock)

SpecWide == Init /\ [][NextWide]_vars

\* The two flags, changed from either panel, across page loads, with a timer
\* counting down, completing and being reset by its delayed callback.
NextPrefs ==
  \/ \E checked \in BOOLEAN : AutoStartToggle(checked)
  \/ \E checked \in BOOLEAN : SequentialToggle(checked)
  \/ \E newState \in BOOLEAN : MobileAutoStartToggle(newState)
  \/ \E newState \in BOOLEAN : MobileSequentialToggle(newState)
  \/ Reload
  \/ \E i \in DOMAIN timers : ConfirmTimeInput(i, NoField, <<1>>)
  \/ \E i \in DOMAIN timers : PlayPauseButton(i)
  \/ \E c \in ticks : FireTick(c)
  \/ \E b \in blinks : FireBlink(b)
  \/ AdvanceClock(LongClock)

SpecPrefs == Init /\ [][NextPrefs]_vars

\* The counter page.
NextCounter ==
  \/ \E index \in DOMAIN counters, delta \in {-1, 1} :
       CounterButton(index, delta, FALSE)
  \/ \E index \in DOMAIN counters : CounterButton(index, 0, TRUE)
  \/ \E index \in DOMAIN counters, value \in TargetOptions :
       CounterTargetInput(index, value)
  \/ CounterResetAll
  \/ \E n \in CounterCounts : CounterCountSelect(n)
  \/ CounterReload

SpecCounter == Init /\ [][NextCounter]_vars

TypeOK ==
  /\ DOMAIN timers = Ids(currentTimerCount)
  /\ currentTimerCount \in PresetCounts
  /\ storage \in {Null} \cup {<<[autoStartEnabled |-> b]>> : b \in BOOLEAN}

\* ------------------------------------------------------------------ claims
LiveTicks(i) == {c \in ticks : c.timerId = i /\ ~c.stale}

\* C1: in every reachable state every timer has 0 <= currentTime <= totalTime,
\* and currentTime = 0 whenever isCompleted is true.
C1_TimeWithinBounds ==
  \A i \in DOMAIN timers :
    /\ 0 <= timers[i].currentTime
    /\ timers[i].currentTime <= timers[i].totalTime
    /\ timers[i].isCompleted => timers[i].currentTime = 0

\* C2: no timer is ever running and completed at once, also when a tick of an
\* earlier start fires after the timer was stopped, completed or restarted.
C2_NeverRunningAndCompleted ==
  \A i \in DOMAIN timers : ~(timers[i].isRunning /\ timers[i].isCompleted)

\* A completed timer with a timerTick of an earlier start still pending.
C2_Witness ==
  \E i \in DOMAIN timers : timers[i].isCompleted /\ LiveTicks(i) # {}

\* C3: a timer with totalTime = 0 is never running.
C3_UnsetNeverRunning ==
  \A i \in DOMAIN timers : timers[i].totalTime = 0 => ~timers[i].isRunning

\* C4: at every moment at most one timerTick callback is pending per timer.
C4_OnePendingTickPerTimer ==
  \A i \in DOMAIN timers : Cardinality(LiveTicks(i)) <= 1

Eligible(i) ==
  {j \in DOMAIN timers : /\ j > i
                         /\ timers[j].totalTime > 0
                         /\ ~timers[j].isRunning
                         /\ ~timers[j].isCompleted}

Lowest(S) == CHOOSE j \in S : \A k \in S : j <= k

\* C5: when timer i completes with sequential execution on, the timer started
\* is exactly the lowest j > i that is set, not running and not completed; no
\* other timer is touched, and nothing is started when there is no such j.
C5_SequentialChaining ==
  [][\A i \in DOMAIN timers :
       (/\ sequentialExecution
        /\ DOMAIN timers' = DOMAIN timers
        /\ ~timers[i].isCompleted
        /\ timers'[i].isCompleted)
       => IF Eligible(i) = {}
          THEN /\ \A k \in DOMAIN timers \ {i} : timers'[k] = timers[k]
               /\ ticks' \subseteq ticks
          ELSE LET j == Lowest(Eligible(i)) IN
               /\ timers'[j].isRunning
               /\ timers'[j].startTime = <<now>>
               /\ \A k \in DOMAIN timers \ {i, j} : timers'[k] = timers[k]
               /\ \E c \in ticks' : /\ c.timerId = j
                                    /\ ticks' \ ticks = {c}]_vars

\* Timer i completed and, at the same instant, the chain skipped an unset
\* timer and started a later one.
C5_Witness ==
  /\ sequentialExecution
  /\ \E i, j \in DOMAIN timers :
       /\ j > i + 1
       /\ timers[i].isCompleted
       /\ timers[i + 1].totalTime = 0
       /\ timers[j].isRunning
       /\ \E b \in blinks : /\ b.timerId = i
                            /\ timers[j].startTime = <<b.due - BlinkResetDelay>>

\* C6: a tick running at time now on a running timer completes it exactly when
\* now >= expectedTime; otherwise the timer stays running with
\* currentTime = ceil((expectedTime - now) / 1000) > 0.
C6_TickFollowsClock ==
  [][\A c \in ticks :
       (FireTick(c) /\ ~c.stale /\ timers[c.timerId].isRunning)
       => LET i == c.timerId
              remainingMs == timers[i].expectedTime[1] - now
          IN IF remainingMs <= 0
             THEN timers'[i].isCompleted /\ ~timers'[i].isRunning
             ELSE /\ ~timers'[i].isCompleted
                  /\ timers'[i].isRunning
                  /\ timers'[i].currentTime > 0
                  /\ timers'[i].currentTime * MsPerSecond >= remainingMs
                  /\ (timers'[i].currentTime - 1) * MsPerSecond < remainingMs]_vars

\* A running timer part-way through its countdown, after a tick.
C6_Witness ==
  \E i \in DOMAIN timers :
    /\ timers[i].isRunning
    /\ 0 < timers[i].currentTime
    /\ timers[i].currentTime < timers[i].totalTime
    /\ now > timers[i].startTime[1]
    /\ now < timers[i].expectedTime[1]

\* C7: startTimer on a completed timer leaves currentTime = totalTime,
\* isRunning true and isCompleted false.
C7_StartRestartsCompleted ==
  \A i \in DOMAIN timers :
    timers[i].isCompleted
    => LET r == startTimer(Engine, i, now).timers[i] IN
       /\ r.currentTime = timers[i].totalTime
       /\ r.isRunning
       /\ ~r.isCompleted

\* A completed, set timer that the start-all button restarts from its full time.
C7_Witness ==
  \E i \in DOMAIN timers :
    /\ timers[i].isCompleted
    /\ timers[i].totalTime > 0
    /\ ~sequentialExecution
    /\ LET r == startAllTimers(Engine, now, sequentialExecution).timers[i] IN
       r.isRunning /\ r.currentTime = timers[i].totalTime

\* C8: changeTimerCount to a different preset leaves no timer running, every
\* timer of the new collection unset, idle and at zero, and no pending tick.
C8_ResizeClearsEverything ==
  \A n \in PresetCounts :
    n # currentTimerCount
    => LET r == changeTimerCount(Engine, n) IN
       /\ DOMAIN r.timers = Ids(n)
       /\ \A i \in DOMAIN r.timers : /\ r.timers[i].totalTime = 0
                                     /\ r.timers[i].currentTime = 0
                                     /\ ~r.timers[i].isRunning
                                     /\ ~r.timers[i].isCompleted
       /\ r.ticks = {}

\* C9: the time-input dialog rejects an entered time above currentMaxTime with
\* MaxTimeExceeded and no change, and accepts an entered time equal to
\* currentMaxTime, setting totalTime to it.
C9_MaxTimeBoundary ==
  \A i \in DOMAIN timers : \A m \in WideMinutes : \A s \in WideSeconds :
    LET entered == ParseIntOrZero(m) * 60 + ParseIntOrZero(s)
        r == confirmTimeInput(Engine, i, m, s, currentMaxTime, autoStartEnabled, now)
    IN /\ entered > currentMaxTime
          => /\ r.note = "MaxTimeExceeded"
             /\ r.timers = timers
             /\ r.ticks = ticks
             /\ r.intervalIds = intervalIds
       /\ entered = currentMaxTime
          => /\ r.note = ""
             /\ r.timers[i].totalTime = currentMaxTime

\* C10: stopTimer twice equals stopTimer once, and stopTimer on a timer that is
\* not running changes no field of any timer.
C10_StopIdempotent ==
  \A i \in DOMAIN timers :
    LET once == stopTimer(Engine, i) IN
    /\ stopTimer(once, i) = once
    /\ ~timers[i].isRunning => once.timers = timers

\* A timer paused part-way: started, ticked at least once, then stopped.
C10_Witness ==
  \E i \in DOMAIN timers :
    /\ ~timers[i].isRunning
    /\ ~timers[i].isCompleted
    /\ timers[i].startTime # Null
    /\ intervalIds[i] = 0
    /\ 0 < timers[i].currentTime
    /\ timers[i].currentTime < timers[i].totalTime

\* C11: resetTimer on a timer that is idle (unset, not running, not completed)
\* leaves every timer, and everything else the engine holds, as it was.
C11_ResetIdleIsNoOp ==
  \A i \in DOMAIN timers :
    (timers[i].totalTime = 0 /\ ~timers[i].isRunning /\ ~timers[i].isCompleted)
    => resetTimer(Engine, i) = Engine

\* C12: resetTimer from any state leaves timer i as a new timer object is, with
\* no timerTick pending for it and the completion blink off.
C12_ResetLeavesIdle ==
  \A i \in DOMAIN timers :
    LET r == resetTimer(Engine, i) IN
    /\ r.timers[i] = createTimerObject(i)
    /\ r.intervalIds[i] = 0
    /\ {c \in r.ticks : c.timerId = i /\ ~c.stale} = {}
    /\ ~r.rowCompleted[i]

\* C13: updateTimerTime leaves the timer stopped with no timerTick pending for
\* it, totalTime = currentTime = the time given and isCompleted false.
C13_SetTimeStopsAndSets ==
  \A i \in DOMAIN timers : \A u \in DragUnits :
    LET seconds == u * SNAP_UNIT_SECONDS
        r == updateTimerTime(Engine, i, seconds)
    IN /\ ~r.timers[i].isRunning
       /\ {c \in r.ticks : c.timerId = i /\ ~c.stale} = {}
       /\ r.timers[i].totalTime = seconds
       /\ r.timers[i].currentTime = seconds
       /\ ~r.timers[i].isCompleted

\* C14: after the dialog, apply-to-all or a drag has set a time, the timer is
\* running exactly when the time is above zero and auto-start is on.
C14_AutoStartAfterSetTime ==
  /\ \A i \in DOMAIN timers : \A s \in DialogSeconds :
       LET r == confirmTimeInput(Engine, i, NoField, s, currentMaxTime,
                                 autoStartEnabled, now)
       IN r.note = ""
          => (r.timers[i].isRunning <=> (ParseIntOrZero(s) > 0 /\ autoStartEnabled))
  /\ \A s \in DialogSeconds :
       LET r == applyGlobalTime(Engine, NoField, s, currentMaxTime,
                                autoStartEnabled, now)
       IN r.note = ""
          => \A i \in DOMAIN timers :
               r.timers[i].isRunning <=> (ParseIntOrZero(s) > 0 /\ autoStartEnabled)
  /\ \A i \in DOMAIN timers : \A u \in DragUnits :
       LET r == endDrag(onDrag(Engine, i, u), i, autoStartEnabled, now)
       IN r.timers[i].isRunning <=> (u > 0 /\ autoStartEnabled)

\* Auto-start is on and one timer was started by it at this instant, while
\* another, set when auto-start was off, was never started.
C14_Witness ==
  /\ autoStartEnabled
  /\ \E i, j \in DOMAIN timers :
       /\ timers[i].isRunning
       /\ timers[i].startTime = <<now>>
       /\ timers[i].currentTime = timers[i].totalTime
       /\ timers[j].totalTime > 0
       /\ ~timers[j].isRunning
       /\ timers[j].startTime = Null

\* C15: the tick that completes timer i leaves it not running, completed and
\* at zero with no timerTick pending for it, and raises the alert once; stop,
\* reset and setTime raise none.
C15_CompleteOnceAndClean ==
  /\ \A c \in ticks :
       (/\ ~c.stale
        /\ now >= c.due
        /\ timers[c.timerId].isRunning
        /\ now >= timers[c.timerId].expectedTime[1])
       => LET i == c.timerId
              r == runTick(Engine, c, now, sequentialExecution)
          IN /\ ~r.timers[i].isRunning
             /\ r.timers[i].isCompleted
             /\ r.timers[i].currentTime = 0
             /\ {d \in r.ticks : d.timerId = i /\ ~d.stale} = {}
             /\ r.alerts = <<i>>
  /\ \A i \in DOMAIN timers :
       /\ stopTimer(Engine, i).alerts = <<>>
       /\ resetTimer(Engine, i).alerts = <<>>
       /\ \A u \in DragUnits :
            updateTimerTime(Engine, i, u * SNAP_UNIT_SECONDS).alerts = <<>>

\* C16: a timerTick that runs while its timer is not running changes no timer
\* field, schedules nothing, completes nothing and raises no alert.
C16_TickOnStoppedTimerIsNoOp ==
  \A c \in ticks :
    (now >= c.due /\ (c.stale \/ ~timers[c.timerId].isRunning))
    => LET r == runTick(Engine, c, now, sequentialExecution) IN
       /\ r.timers = timers
       /\ r.ticks = ticks \ {c}
       /\ r.intervalIds = intervalIds
       /\ r.blinks = blinks
       /\ r.rowCompleted = rowCompleted
       /\ r.alerts = <<>>

\* A timerTick is due while its timer, started before, is stopped.
C16_Witness ==
  \E c \in ticks :
    /\ ~c.stale
    /\ now >= c.due
    /\ ~timers[c.timerId].isRunning
    /\ ~timers[c.timerId].isCompleted
    /\ timers[c.timerId].startTime # Null

\* C17: with sequential execution on, startAllTimers starts the lowest timer
\* that has a time set and touches no other timer, whatever runs or is
\* completed; with no time set anywhere it does nothing.
C17_SequentialStartAllStartsFirst ==
  sequentialExecution
  => LET S == {i \in DOMAIN timers : timers[i].totalTime > 0}
         r == startAllTimers(Engine, now, TRUE)
     IN IF S = {}
        THEN r.timers = timers /\ r.ticks = ticks
        ELSE /\ r.timers[Lowest(S)].isRunning
             /\ \A k \in DOMAIN timers \ {Lowest(S)} : r.timers[k] = timers[k]

\* C18: with sequential execution off, a start-all step makes every set timer
\* that is not running run, a completed one from its full time, and leaves
\* unset and already running timers, and their pending ticks, as they were.
C18_StartAllStartsEveryReady ==
  [][(StartAll /\ ~sequentialExecution)
     => \A i \in DOMAIN timers :
          IF timers[i].totalTime > 0 /\ ~timers[i].isRunning
          THEN /\ timers'[i].isRunning
               /\ ~timers'[i].isCompleted
               /\ timers'[i].totalTime = timers[i].totalTime
               /\ timers'[i].currentTime =
                    IF timers[i].isCompleted THEN timers[i].totalTime
                    ELSE timers[i].currentTime
               /\ timers'[i].startTime = <<now>>
          ELSE /\ timers'[i] = timers[i]
               /\ intervalIds'[i] = intervalIds[i]
               /\ {c \in ticks' : c.timerId = i} = {c \in ticks : c.timerId = i}]_vars

\* Sequential execution is off, one timer is part-way through its countdown
\* and another, completed before, was started at this instant from its full
\* time while its delayed auto-reset is still pending.
C18_Witness ==
  /\ ~sequentialExecution
  /\ \E i, j \in DOMAIN timers :
       /\ timers[i].isRunning
       /\ timers[i].startTime # <<now>>
       /\ timers[j].isRunning
       /\ timers[j].startTime = <<now>>
       /\ timers[j].currentTime = timers[j].totalTime
       /\ \E b \in blinks : b.timerId = j /\ b.due > now

\* C19: stopAllTimers leaves no timer running and no timerTick pending, with
\* totalTime and currentTime of every timer as they were; resetAllTimers
\* leaves every timer as a new timer object is.
C19_StopAllAndResetAll ==
  /\ LET r == stopAllTimers(Engine) IN
     /\ \A i \in DOMAIN timers :
          /\ ~r.timers[i].isRunning
          /\ r.timers[i].totalTime = timers[i].totalTime
          /\ r.timers[i].currentTime = timers[i].currentTime
     /\ {c \in r.ticks : ~c.stale} = {}
  /\ LET r == resetAllTimers(Engine) IN
     \A i \in DOMAIN timers :
       /\ r.timers[i].totalTime = 0
       /\ r.timers[i].currentTime = 0
       /\ ~r.timers[i].isRunning
       /\ ~r.timers[i].isCompleted

\* C20: changeTimerCount with the count the collection already has, directly
\* or through the select, changes nothing: timers, handles and pending
\* callbacks stay.
C20_SameCountIsNoOp ==
  /\ changeTimerCount(Engine, currentTimerCount) = Engine
  /\ timerCountSelectChange(Engine, <<currentTimerCount>>) = Engine

\* The collection was resized before and a timer of it runs with its tick
\* pending, so that choosing the same count again has something to keep.
C20_Witness ==
  /\ currentTimerCount # COUNT
  /\ \E i \in DOMAIN timers :
       /\ timers[i].isRunning
       /\ \E c \in ticks : c.timerId = i /\ ~c.stale /\ c.id = intervalIds[i]

\* C21: a count outside the presets, or a value that is not a number, is
\* rejected with the InvalidPreset notification and changes nothing: the
\* timer count, the timer objects, the handles and every pending callback
\* stay as they were.
C21_InvalidCountRejected ==
  \A v \in CountOptions :
    (v = <<>> \/ v[1] \notin PresetCounts)
      => LET r == timerCountSelectChange(Engine, v)
         IN /\ r.note = "InvalidPreset"
            /\ [r EXCEPT !.note = ""] = Engine
            /\ Cardinality(DOMAIN r.timers) = currentTimerCount

\* A timer runs with its tick pending while the select can deliver both a
\* number outside the presets and a value that is not a number.
C21_Witness ==
  /\ \E i \in DOMAIN timers :
       /\ timers[i].isRunning
       /\ \E c \in ticks : c.timerId = i /\ ~c.stale /\ c.id = intervalIds[i]
  /\ \E v \in CountOptions : v # <<>> /\ v[1] \notin PresetCounts
       /\ timerCountSelectChange(Engine, v).note = "InvalidPreset"
  /\ timerCountSelectChange(Engine, <<>>).note = "InvalidPreset"

\* C22: a change of the max-time select leaves every timer with totalTime 0,
\* currentTime 0, not running and not completed, and leaves no timerTick
\* pending.
C22_MaxTimeChangeResetsAll ==
  [][(\E v \in MAX_TIME_OPTIONS : MaxTimeSelect(v))
       => /\ \A i \in DOMAIN timers' :
               /\ timers'[i].totalTime = 0
               /\ timers'[i].currentTime = 0
               /\ ~timers'[i].isRunning
               /\ ~timers'[i].isCompleted
          /\ ticks' = {}]_vars

\* C23: the delayed auto-reset scheduled by a completion does nothing once the
\* timer has been reset, restarted or given a new time.  A timer completed
\* again after such an action has the auto-reset of the later completion
\* pending, and while that one is not yet due, the callback of the earlier
\* completion leaves the timer and its row as they are.
C23_StaleAutoResetCancelled ==
  [][\A b \in blinks :
       (/\ FireBlink(b)
        /\ \E b2 \in blinks : /\ b2.timerId = b.timerId
                              /\ b2.due > b.due
                              /\ b2.due > now)
         => /\ timers' = timers
            /\ rowCompleted' = rowCompleted]_vars

\* C24: while sequential execution is enabled, at most one timer is running.
C24_SequentialOneRunning ==
  sequentialExecution
    => Cardinality({i \in DOMAIN timers : timers[i].isRunning}) <= 1

\* C25: a running timer has a live pending tick: the handle stored for it is
\* not null and is the handle of a timerTick callback of this timer that has
\* neither run nor been cancelled.
C25_RunningHasLiveTick ==
  \A i \in DOMAIN timers :
    timers[i].isRunning
      => /\ intervalIds[i] # 0
         /\ \E c \in ticks : c.id = intervalIds[i] /\ c.timerId = i /\ ~c.stale

\* A timer part-way through its countdown: its first tick has run and stored
\* the handle of the next one.
C25_Witness ==
  \E i \in DOMAIN timers :
    /\ timers[i].isRunning
    /\ timers[i].startTime # <<now>>
    /\ timers[i].currentTime > 0
    /\ \E c \in ticks : /\ c.id = intervalIds[i]
                        /\ c.timerId = i
                        /\ c.due # timers[i].startTime[1] + FirstTickDelay

\* C26: startTime is null whenever the timer is not running.
C26_StartTimeNullWhenIdle ==
  \A i \in DOMAIN timers : ~timers[i].isRunning => timers[i].startTime = Null

\* C27: every start of a timer that is not completed, a resume after a stop
\* included, sets startTime to the clock and expectedTime to startTime plus
\* the currentTime left at that moment, in milliseconds; stop followed by
\* start leaves totalTime and currentTime as they were, and from then on a
\* tick finds the timer complete exactly when currentTime seconds have passed.
C27_StartRebasesOnCurrentTime ==
  \A i \in DOMAIN timers :
    ~timers[i].isCompleted
      => /\ LET r == startTimer(Engine, i, now).timers[i]
            IN /\ r.startTime = <<now>>
               /\ r.expectedTime = <<now + timers[i].currentTime * MsPerSecond>>
         /\ LET r == startTimer(stopTimer(Engine, i), i, now)
                tm == r.timers[i]
            IN /\ tm.isRunning
               /\ tm.totalTime = timers[i].totalTime
               /\ tm.currentTime = timers[i].currentTime
               /\ tm.startTime = <<now>>
               /\ tm.expectedTime = <<now + timers[i].currentTime * MsPerSecond>>
               /\ LET left == timers[i].currentTime * MsPerSecond
                  IN \A d \in {0, left - MsPerSecond, left - 1, left, left + 1} :
                       d >= 0 => (timerTick(r, i, now + d, FALSE).timers[i].isCompleted
                                    <=> d >= left)

\* A running timer that counted part of its time down, so that stopping and
\* starting it resumes from less than totalTime, at a later clock value
\* than its first start.
C27_Witness ==
  \E i \in DOMAIN timers :
    /\ timers[i].isRunning
    /\ timers[i].currentTime > 0
    /\ timers[i].currentTime < timers[i].totalTime
    /\ timers[i].startTime # <<now>>
    /\ startTimer(stopTimer(Engine, i), i, now).timers[i].expectedTime
         = <<now + timers[i].currentTime * MsPerSecond>>

\* The two persisted flags as the object holds them.
Flags ==
  [autoStartEnabled |-> autoStartEnabled,
   sequentialExecution |-> sequentialExecution]

\* C28: every change of a persisted flag made by the user, from the desktop
\* panel or the mobile one, leaves the stored preferences saved from the new
\* values before the next event, and no timerTick, completion or delayed
\* auto-reset writes to the storage.
C28_UserChangesAreSaved ==
  [][/\ (/\ \E x \in BOOLEAN : \/ AutoStartToggle(x)
                               \/ SequentialToggle(x)
                               \/ MobileAutoStartToggle(x)
                               \/ MobileSequentialToggle(x)
         /\ Flags' # Flags)
          => storage' = saveSettings(Flags')
     /\ ((\E c \in ticks : FireTick(c)) \/ (\E b \in blinks : FireBlink(b)))
          => storage' = storage]_vars

\* C29: saving the preferences and loading them in a new session gives both
\* flags the values they had at the save: a page load that finds the item
\* saved from the present flags starts with exactly these flags.
C29_FlagsRoundTrip ==
  [][(Reload /\ storage = saveSettings(Flags)) => Flags' = Flags]_vars

\* C30: a completion at which the audio channel is unavailable or fails is a
\* completion all the same: the timer ends not running, completed, with
\* currentTime 0, the handler shows its notification instead of raising an
\* error, and with sequential execution on the lowest later timer that is
\* set, not running and not completed is started.
C30_AudioFailureStillCompletes ==
  \A c \in ticks : \A audio \in AudioOutcomes \ {"plays"} :
    LET i == c.timerId
        r == runTick(EngineWith(audio), c, now, sequentialExecution)
    IN (/\ ~c.stale
        /\ now >= c.due
        /\ timers[i].isRunning
        /\ now >= timers[i].expectedTime[1])
         => /\ ~r.timers[i].isRunning
            /\ r.timers[i].isCompleted
            /\ r.timers[i].currentTime = 0
            /\ r.note = "TimerComplete"
            /\ r.alerts = <<>>
            /\ (sequentialExecution /\ Eligible(i) # {})
                 => LET j == Lowest(Eligible(i)) IN
                    /\ r.timers[j].isRunning
                    /\ r.timers[j].startTime = <<now>>
                    /\ \E n \in r.ticks : n.timerId = j /\ n.id = r.intervalIds[j]

\* With sequential execution on, the tick that completes a running timer is
\* due while a later timer waits its turn, and the audio channel fails.
C30_Witness ==
  /\ sequentialExecution
  /\ \E c \in ticks :
       /\ ~c.stale
       /\ now >= c.due
       /\ timers[c.timerId].isRunning
       /\ timers[c.timerId].totalTime > 0
       /\ now >= timers[c.timerId].expectedTime[1]
       /\ Eligible(c.timerId) # {}
       /\ runTick(EngineWith("throws"), c, now, sequentialExecution).note
            = "TimerComplete"

\* C31: the completion indicator of a timer nobody touched is cleared by
\* the delayed callback 5 seconds after the completion, not before: the
\* callback that clears it runs no earlier than 5000 ms after the end of the
\* countdown; and on a timer the user has reset in the meantime the callback
\* changes nothing.
C31_AutoClearAfterFiveSeconds ==
  [][\A b \in blinks :
       FireBlink(b)
         => IF timers[b.timerId].isCompleted
            THEN /\ ~timers'[b.timerId].isCompleted
                 /\ now >= timers[b.timerId].expectedTime[1] + BlinkResetDelay
            ELSE /\ timers' = timers
                 /\ rowCompleted' = rowCompleted]_vars

\* C32: a timerTick callback scheduled before changeTimerCount replaced the
\* collection does nothing when it runs afterwards, whatever the clock and
\* the audio channel: it only leaves the pending callbacks; no timer of the
\* new collection, no handle, no row and no delayed auto-reset changes, no
\* tick is scheduled, no alarm sounds and no notification shows.
C32_StaleTickDropped ==
  \A c \in ticks : \A audio \in AudioOutcomes : \A d \in {0, MsPerSecond} :
    c.stale
      => runTick(EngineWith(audio), c, now + d, sequentialExecution)
           = [EngineWith(audio) EXCEPT !.ticks = @ \ {c}]

\* A callback of the collection before the resize is due while a timer of
\* the new collection runs at the index the callback was created for.
C32_Witness ==
  \E c \in ticks :
    /\ c.stale
    /\ now >= c.due
    /\ c.timerId \in DOMAIN timers
    /\ timers[c.timerId].isRunning
    /\ timers[c.timerId].totalTime > 0

\* C33: isCompleted goes from false to true only in the step of a timerTick
\* of that timer, found running, that brings currentTime to 0: no other
\* handler sets it.
C33_CompletedOnlyByTick ==
  [][\A i \in DOMAIN timers :
       (/\ i \in DOMAIN timers'
        /\ ~timers[i].isCompleted
        /\ timers'[i].isCompleted)
         => /\ timers[i].isRunning
            /\ timers'[i].currentTime = 0
            /\ \E c \in ticks : /\ c.timerId = i
                                /\ ~c.stale
                                /\ now >= c.due
                                /\ now >= timers[i].expectedTime[1]
                                /\ FireTick(c)]_vars

\* A completed timer beside one that was set, started, stopped and set
\* again without completing.
C33_Witness ==
  \E i, j \in DOMAIN timers :
    /\ timers[i].isCompleted
    /\ ~timers[j].isCompleted
    /\ ~timers[j].isRunning
    /\ timers[j].totalTime > 0
    /\ timers[j].startTime # Null

\* C34: when every due callback is run at some time and the clock keeps
\* advancing, a running timer with totalTime > 0 eventually is completed,
\* unless it is stopped first.
C34_StartedEventuallyCompletes ==
  \A i \in Ids(COUNT) :
    (timers[i].isRunning /\ timers[i].totalTime > 0)
      ~> (timers[i].isCompleted \/ ~timers[i].isRunning)

\* A timer that completed its countdown after being started at a later
\* time than the page load.
C34_Witness ==
  \E i \in DOMAIN timers :
    /\ timers[i].isCompleted
    /\ timers[i].totalTime > 0
    /\ timers[i].startTime # Null
    /\ timers[i].startTime # <<0>>
    /\ now >= timers[i].expectedTime[1]

\* C35: a tick that does not complete its timer schedules the next tick
\* after max(1, 1000 - (elapsed mod 1000)) ms with elapsed = now - startTime:
\* the delay is within 1..1000 ms, and the next tick is due at the next whole
\* second counted from startTime, whenever the tick itself runs.
C35_NextTickOnSecondBoundary ==
  \A c \in ticks : \A late \in {0, 1, 250, MsPerSecond - 1} :
    LET i == c.timerId
        t == Max(now, c.due) + late
        r == runTick(Engine, c, t, sequentialExecution)
    IN (/\ ~c.stale
        /\ timers[i].isRunning
        /\ t < timers[i].expectedTime[1])
         => \E n \in r.ticks \ ticks :
              LET elapsed == t - timers[i].startTime[1]
                  delay == n.due - t
              IN /\ r.ticks \ ticks = {n}
                 /\ n.timerId = i
                 /\ n.id = r.intervalIds[i]
                 /\ delay = Max(1, MsPerSecond - (elapsed % MsPerSecond))
                 /\ delay >= 1
                 /\ delay <= MsPerSecond
                 /\ (n.due - timers[i].startTime[1]) % MsPerSecond = 0
                 /\ n.due - timers[i].startTime[1] > elapsed

\* A running two-second timer whose first tick is due, one second and more
\* before the end of the countdown, at a clock value that is no whole second
\* from the start.
C35_Witness ==
  \E c \in ticks :
    /\ ~c.stale
    /\ now >= c.due
    /\ timers[c.timerId].isRunning
    /\ now + MsPerSecond <= timers[c.timerId].expectedTime[1]
    /\ (now - timers[c.timerId].startTime[1]) % MsPerSecond # 0

\* C36: every timer's totalTime is between 0 and the max time in force,
\* whatever is typed into the time dialog or the apply-to-all fields,
\* wherever a bar is dragged and whenever the max time changes.
C36_TotalTimeWithinMax ==
  \A i \in DOMAIN timers :
    /\ timers[i].totalTime >= 0
    /\ timers[i].totalTime <= currentMaxTime

\* What belongs to timer j in the engine e.
Own(e, j) ==
  [timer |-> e.timers[j], handle |-> e.intervalIds[j], row |-> e.rowCompleted[j],
   ticks |-> {c \in e.ticks : c.timerId = j},
   blinks |-> {b \in e.blinks : b.timerId = j}]

\* C37: timers are independent: setting the time of timer i, starting,
\* stopping and resetting it, and a tick of it, leave every field, the
\* handle and the pending callbacks of every other timer as they were; a tick
\* of timer i changes another timer only when it completes timer i with
\* sequential execution on.
C37_TimersIndependent ==
  \A i, j \in DOMAIN timers :
    i # j =>
      /\ \A s \in DialogSeconds :
           Own(confirmTimeInput(Engine, i, NoField, s, currentMaxTime,
                                autoStartEnabled, now), j) = Own(Engine, j)
      /\ Own(startTimer(Engine, i, now), j) = Own(Engine, j)
      /\ Own(stopTimer(Engine, i), j) = Own(Engine, j)
      /\ Own(playPauseClick(Engine, i, now), j) = Own(Engine, j)
      /\ Own(resetTimer(Engine, i), j) = Own(Engine, j)
      /\ \A c \in ticks :
           (c.timerId = i /\ now >= c.due)
             => LET r == runTick(Engine, c, now, sequentialExecution)
                IN (sequentialExecution /\ r.timers[i].isCompleted
                      /\ ~timers[i].isCompleted)
                   \/ Own(r, j) = Own(Engine, j)

\* Two timers run, each with its own tick pending, and the tick of one of
\* them is due.
C37_Witness ==
  \E i, j \in DOMAIN timers :
    /\ i # j
    /\ timers[i].isRunning
    /\ timers[j].isRunning
    /\ timers[j].totalTime > 0
    /\ \E c \in ticks : c.timerId = j /\ c.id = intervalIds[j]
    /\ \E c \in ticks : c.timerId = i /\ c.id = intervalIds[i] /\ now >= c.due

\* C38: a tick that finds its timer running never raises currentTime,
\* however many timerTick callbacks are pending for the timer.
C38_CurrentTimeNeverIncreases ==
  [][\A c \in ticks :
       (/\ FireTick(c)
        /\ ~c.stale
        /\ timers[c.timerId].isRunning)
         => timers'[c.timerId].currentTime <= timers[c.timerId].currentTime]_vars

\* C39: the delayed auto-reset of a completed timer changes isCompleted to
\* false and nothing else of the timer: currentTime stays 0 and totalTime
\* stays, the timer is not running.  Started after that, the timer keeps
\* currentTime 0, and its first tick completes it again, with the alarm.
C39_AutoResetKeepsZero ==
  \A b \in blinks :
    LET i == b.timerId IN
    timers[i].isCompleted
      => LET r == runBlink(Engine, b)
             s == startTimer(r, i, now)
         IN /\ r.timers[i] = [timers[i] EXCEPT !.isCompleted = FALSE]
            /\ r.timers[i].currentTime = 0
            /\ ~r.timers[i].isRunning
            /\ s.timers[i].isRunning
            /\ s.timers[i].currentTime = 0
            /\ s.timers[i].totalTime = timers[i].totalTime
            /\ \A n \in s.ticks \ r.ticks :
                 LET k == runTick(s, n, n.due, sequentialExecution)
                 IN /\ k.timers[i].isCompleted
                    /\ k.timers[i].currentTime = 0
                    /\ k.alerts = <<i>>

\* The auto-reset has run on a timer that was set and completed: the timer
\* is neither running nor completed, with its time set and nothing left.
C39_Witness ==
  \E i \in DOMAIN timers :
    /\ ~timers[i].isRunning
    /\ ~timers[i].isCompleted
    /\ ~rowCompleted[i]
    /\ timers[i].totalTime > 0
    /\ timers[i].currentTime = 0
    /\ now >= timers[i].expectedTime[1] + BlinkResetDelay

\* C40: the counter page restores the persisted counters only when there
\* are as many of them as the count in force: choosing another count gives
\* every counter value 0 and no target and overwrites the persisted state
\* with that, so that the values are gone also after choosing the old count
\* again; choosing the count in force keeps the counters.
C40_CountChangeForgetsCounters ==
  /\ changeCount(CounterEngine, currentCount).counters = counters
  /\ \A n \in CounterCounts :
       n # currentCount
         => LET r == changeCount(CounterEngine, n)
            IN /\ r.counters = newCounters(n)
               /\ r.state = <<newCounters(n)>>
               /\ changeCount(r, currentCount).counters = newCounters(currentCount)

\* After a change of count a counter has a value and a target, and the
\* persisted state holds them.
C40_Witness ==
  /\ currentCount # DefaultCounterCount
  /\ \E k \in DOMAIN counters :
       /\ counters[k].value # 0
       /\ counters[k].target # Null
  /\ counterState = <<counters>>

====
